---------------------------- MODULE Spec2Model ----------------------------
(***************************************************************************)
(* Fused kernels of the pipelined conjugate-gradient solver               *)
(* (viennacl/linalg/host_based/iterative_operations.hpp):                 *)
(*   pipelined_cg_vector_update        lines  59-96                       *)
(*   pipelined_cg_prod, five overloads lines 105-376                      *)
(* Values are integers, so every sum is exact.  Arrays are functions on   *)
(* 0..n-1, as in the C++ code.  Every kernel call is one action; the      *)
(* order of its memory operations is kept in the variable trace.          *)
(***************************************************************************)
EXTENDS Integers, Sequences, FiniteSets

\* ------------------------------------------------------------------ bounds
MaxM == 2          \* largest row count M (matrices are M x M)
MaxNnz == 2        \* most stored entries of a matrix drawn for SpecProd
MaxRpb == 2        \* largest rows_per_block / row alignment
MaxB == 2          \* largest per-vector width B of the reduction buffer
MaxUpdates == 2    \* vector-update calls per behaviour of Spec
HybEllWidth == 1   \* internal_ellnnz of the HYB matrices that are built

AVals == {0, 2, 5}                 \* matrix coefficients (0: no entry)
Garbage == {0, MaxM + 2}           \* what stray memory may hold
Alphas == {1, 2}
Betas == {0, 1}

VARIABLES
  A,        \* the logical matrix the five encodings were built from
  csr, coo, ell, sell, hyb,   \* the five encodings handed to the kernels
  p, Ap, result, r,           \* the solver's vectors
  buffer,                     \* inner_prod_buffer, length 3*B
  garbage,  \* the word an out-of-range read returns in this behaviour
  call,     \* the last call: [kernel, alpha, beta]
  pre,      \* the vectors and the buffer as they were before the last call
  hist,     \* which kinds of kernel have run, and p at the last SpMV call
  trace     \* the memory operations of the last call, in program order

mats == <<A, csr, coo, ell, sell, hyb>>
vars == <<A, csr, coo, ell, sell, hyb, p, Ap, result, r, buffer, garbage,
          call, pre, hist, trace>>

\* ----------------------------------------------------------------- helpers
Max(a, b) == IF a >= b THEN a ELSE b
Min(a, b) == IF a <= b THEN a ELSE b
SeqToArr(s) == [i \in 0..(Len(s) - 1) |-> s[i + 1]]
Size(v) == Cardinality(DOMAIN v)
CeilDiv(a, b) == (a + b - 1) \div b
AlignTo(n, a) == CeilDiv(n, a) * a

\* A read through a raw pointer: inside the array its element, outside it
\* whatever the memory there holds.
Rd(a, i) == IF i \in DOMAIN a THEN a[i] ELSE garbage

RECURSIVE SumTo(_, _)
SumTo(f, n) == IF n = 0 THEN 0 ELSE f[n - 1] + SumTo(f, n - 1)
\* exact sums over a vector of size n, the reference for the reductions
SumSq(v) == SumTo([i \in DOMAIN v |-> v[i] * v[i]], Size(v))
Dot(u, v) == SumTo([i \in DOMAIN u |-> u[i] * v[i]], Size(u))
\* the reference product: row `row` of the logical matrix a times x
RowTimes(a, x, row) == SumTo([c \in DOMAIN x |-> a[row][c] * x[c]], Size(x))
MatVec(a, x) == [row \in DOMAIN a |-> RowTimes(a, x, row)]

\* ------------------------------------------------- the five encodings (3.)
\* The matrices are built outside the kernels' file; the builders below
\* follow the layouts of the data model.

RECURSIVE ColsFrom(_, _, _)
\* the columns of row `row` that hold an entry, ascending from column c
ColsFrom(a, row, c) ==
  IF c >= Size(a) THEN <<>>
  ELSE (IF a[row][c] # 0 THEN <<c>> ELSE <<>>) \o ColsFrom(a, row, c + 1)
RowCols(a, row) == ColsFrom(a, row, 0)
RowNnz(a, row) == Len(RowCols(a, row))

RECURSIVE NnzBefore(_, _)
\* the number of entries in rows 0..row-1
NnzBefore(a, row) ==
  IF row = 0 THEN 0 ELSE NnzBefore(a, row - 1) + RowNnz(a, row - 1)
Nnz(a) == NnzBefore(a, Size(a))

RECURSIVE MaxRowNnz(_, _, _)
\* the largest entry count among rows lo..hi-1 that exist
MaxRowNnz(a, lo, hi) ==
  IF lo >= hi \/ lo >= Size(a) THEN 0
  ELSE Max(RowNnz(a, lo), MaxRowNnz(a, lo + 1, hi))

RECURSIVE EntriesFrom(_, _, _, _)
\* the entries <<row, col, value>> of rows row.. , each row from its
\* skip-th entry on, row by row
EntriesFrom(a, row, skip, k) ==
  IF row >= Size(a) THEN <<>>
  ELSE IF k > RowNnz(a, row) THEN EntriesFrom(a, row + 1, skip, skip + 1)
  ELSE <<<<row, RowCols(a, row)[k], a[row][RowCols(a, row)[k]]>>>>
       \o EntriesFrom(a, row, skip, k + 1)
RowMajor(a, skip) == EntriesFrom(a, 0, skip, skip + 1)

RECURSIVE ColMajorFrom(_, _, _)
\* the entries column by column: rows are not grouped
ColMajorFrom(a, c, row) ==
  IF c >= Size(a) THEN <<>>
  ELSE IF row >= Size(a) THEN ColMajorFrom(a, c + 1, 0)
  ELSE (IF a[row][c] # 0 THEN <<<<row, c, a[row][c]>>>> ELSE <<>>)
       \o ColMajorFrom(a, c, row + 1)

\* compressed_matrix: row_buffer[M+1], col_buffer[nnz], elements[nnz]
ToCSR(a) ==
  LET e == RowMajor(a, 0) IN
  [size1 |-> Size(a),
   row_buffer |-> [row \in 0..Size(a) |-> NnzBefore(a, row)],
   col_buffer |-> SeqToArr([k \in 1..Len(e) |-> e[k][2]]),
   elements |-> SeqToArr([k \in 1..Len(e) |-> e[k][3]])]

\* coordinate_matrix: coord_buffer holds nnz (row, col) pairs, in no row order
ToCOO(a) ==
  LET e == ColMajorFrom(a, 0, 0) IN
  [nnz |-> Len(e),
   coord_buffer |-> [k \in 0..(2 * Len(e) - 1) |->
                       e[(k \div 2) + 1][(k % 2) + 1]],
   elements |-> SeqToArr([k \in 1..Len(e) |-> e[k][3]])]

\* ell_matrix: internal_maxnnz slots a row, slot item_id of row `row` at
\* row + item_id * internal_size1; an unused slot holds the value 0 and the
\* column index padcol
ToELL(a, align, width, padcol) ==
  LET is1 == AlignTo(Size(a), align)
      used(off) == (off % is1) < Size(a)
                   /\ (off \div is1) < RowNnz(a, off % is1)
      col(off) == RowCols(a, off % is1)[(off \div is1) + 1]
  IN [size1 |-> Size(a),
      internal_size1 |-> is1,
      internal_maxnnz |-> width,
      elements |-> [off \in 0..(is1 * width - 1) |->
                      IF used(off) THEN a[off % is1][col(off)] ELSE 0],
      coords |-> [off \in 0..(is1 * width - 1) |->
                      IF used(off) THEN col(off) ELSE padcol]]

\* hyb_matrix: the first HybEllWidth entries of a row in an ELL part, the
\* rest in a CSR part
ToHYB(a, align, padcol) ==
  LET l == ToELL(a, align, HybEllWidth, padcol)
      e == RowMajor(a, HybEllWidth)
      over(row) == Max(0, RowNnz(a, row) - HybEllWidth)
      RECURSIVE OverBefore(_)
      OverBefore(row) ==
        IF row = 0 THEN 0 ELSE OverBefore(row - 1) + over(row - 1)
  IN [size1 |-> Size(a),
      internal_size1 |-> l.internal_size1,
      internal_ellnnz |-> HybEllWidth,
      elements |-> l.elements,
      coords |-> l.coords,
      csr_row_buffer |-> [row \in 0..Size(a) |-> OverBefore(row)],
      csr_col_buffer |-> SeqToArr([k \in 1..Len(e) |-> e[k][2]]),
      csr_elements |-> SeqToArr([k \in 1..Len(e) |-> e[k][3]])]

\* sliced_ell_matrix: blocks of rpb rows; block b holds columns_per_block[b]
\* (at least one) columns of rpb slots each from block_start[b] on.  A slot of a row past
\* the matrix (the last block's overhang) holds ovh, an unused slot of a
\* real row holds 0 with column index padcol.
ToSELL(a, rpb, padcol, ovh) ==
  LET nb == CeilDiv(Size(a), rpb)
      cpb(b) == Max(1, MaxRowNnz(a, b * rpb, (b + 1) * rpb))
      RECURSIVE Start(_)
      Start(b) == IF b = 0 THEN 0 ELSE Start(b - 1) + cpb(b - 1) * rpb
      blk(off) == CHOOSE b \in 0..(nb - 1) :
                    Start(b) <= off /\ off < Start(b + 1)
      row(off) == blk(off) * rpb + ((off - Start(blk(off))) % rpb)
      item(off) == (off - Start(blk(off))) \div rpb
      used(off) == row(off) < Size(a) /\ item(off) < RowNnz(a, row(off))
      col(off) == RowCols(a, row(off))[item(off) + 1]
  IN [size1 |-> Size(a),
      rows_per_block |-> rpb,
      columns_per_block |-> [b \in 0..(nb - 1) |-> cpb(b)],
      block_start |-> [b \in 0..(nb - 1) |-> Start(b)],
      elements |-> [off \in 0..(Start(nb) - 1) |->
                      IF row(off) >= Size(a) THEN ovh
                      ELSE IF used(off) THEN a[row(off)][col(off)] ELSE 0],
      column_indices |-> [off \in 0..(Start(nb) - 1) |->
                      IF row(off) >= Size(a) THEN 0
                      ELSE IF used(off) THEN col(off) ELSE padcol]]

\* ------------------------------------------- pipelined_cg_vector_update
\* vu_element with the new p[i] taken from the old r[i]
vu_element_old_r(k, alpha, vAp, beta, i) ==
  LET value_p == k.p[i]
      value_r == k.r[i] - alpha * vAp[i]
  IN [result |-> [k.result EXCEPT ![i] = @ + alpha * value_p],
      p |-> [k.p EXCEPT ![i] = k.r[i] + beta * value_p],
      r |-> [k.r EXCEPT ![i] = value_r],
      inner_prod_r |-> k.inner_prod_r + value_r * value_r]

\* One pass of the loop body, lines 82-92: k holds result, p, r and the
\* running sum inner_prod_r.
vu_element(k, alpha, vAp, beta, i) ==
  LET value_p == k.p[i]
      value_r == k.r[i] - alpha * vAp[i]
  IN [result |-> [k.result EXCEPT ![i] = @ + alpha * value_p],
      p |-> [k.p EXCEPT ![i] = value_r + beta * value_p],
      r |-> [k.r EXCEPT ![i] = value_r],
      inner_prod_r |-> k.inner_prod_r + value_r * value_r]

RECURSIVE vu_loop(_, _, _, _, _)
\* the loop of lines 80-93, from index i on
vu_loop(k, alpha, vAp, beta, i) ==
  IF i < Size(k.result)
  THEN vu_loop(vu_element(k, alpha, vAp, beta, i), alpha, vAp, beta, i + 1)
  ELSE k

\* the whole call, lines 59-96: the updated vectors and buffer
pipelined_cg_vector_update(vresult, alpha, vp, vr, vAp, beta, buf) ==
  LET k == vu_loop([result |-> vresult, p |-> vp, r |-> vr,
                    inner_prod_r |-> 0], alpha, vAp, beta, 0)
  IN [result |-> k.result, p |-> k.p, r |-> k.r,
      buffer |-> [buf EXCEPT ![0] = k.inner_prod_r],
      tr |-> <<<<"buf", 0>>>>]

\* ---------------------------------------------------- pipelined_cg_prod
\* A kernel's running state k: Ap, the two running sums inner_prod_ApAp and
\* inner_prod_pAp, and tr, its memory operations so far:
\*   <<"col", v, c>>   column index c read for a slot whose value is v
\*   <<"zero", i>>     Ap[i] = 0            <<"scatter", row>>  Ap[row] += ..
\*   <<"Ap", row>>     Ap[row] = ..         <<"red", row>>  row added to sums
\*   <<"blk", b>>      columns_per_block[b] read      <<"buf", o>> buffer[o] = ..
kernel_state(vAp) == [Ap |-> vAp, ApAp |-> 0, pAp |-> 0, tr |-> <<>>]

\* store_reductions one slot too low: stores at offsets 0 and B
store_reductions_unstrided(k, buf) ==
  LET buffer_size_per_vector == Size(buf) \div 3 IN
  [Ap |-> k.Ap,
   buffer |-> [buf EXCEPT ![0] = k.ApAp,
                          ![buffer_size_per_vector] = k.pAp],
   tr |-> k.tr \o <<<<"buf", 0>>, <<"buf", buffer_size_per_vector>>>>]

\* store_reductions with the two sums exchanged
store_reductions_swapped(k, buf) ==
  LET buffer_size_per_vector == Size(buf) \div 3 IN
  [Ap |-> k.Ap,
   buffer |-> [buf EXCEPT ![buffer_size_per_vector] = k.pAp,
                          ![2 * buffer_size_per_vector] = k.ApAp],
   tr |-> k.tr \o <<<<"buf", buffer_size_per_vector>>,
                    <<"buf", 2 * buffer_size_per_vector>>>>]

\* The two stores that end every overload (lines 140-141, 189-190, 237-238,
\* 308-309, 374-375), with buffer_size_per_vector = size / 3.
store_reductions(k, buf) ==
  LET buffer_size_per_vector == Size(buf) \div 3 IN
  [Ap |-> k.Ap,
   buffer |-> [buf EXCEPT ![buffer_size_per_vector] = k.ApAp,
                          ![2 * buffer_size_per_vector] = k.pAp],
   tr |-> k.tr \o <<<<"buf", buffer_size_per_vector>>,
                    <<"buf", 2 * buffer_size_per_vector>>>>]

\* ---- compressed_matrix, lines 105-142
RECURSIVE csr_dot(_, _, _, _, _)
\* lines 131-132: s = [sum, tr]
csr_dot(m, pv, i, row_end, s) ==
  IF i < row_end
  THEN csr_dot(m, pv, i + 1, row_end,
         [sum |-> s.sum + m.elements[i] * Rd(pv, m.col_buffer[i]),
          tr |-> Append(s.tr, <<"col", m.elements[i], m.col_buffer[i]>>)])
  ELSE s

\* lines 127-137, one row
csr_row(m, pv, k, row) ==
  LET val_p_diag == Rd(pv, row)
      s == csr_dot(m, pv, m.row_buffer[row], m.row_buffer[row + 1],
                   [sum |-> 0, tr |-> k.tr])
  IN [Ap |-> [k.Ap EXCEPT ![row] = s.sum],
      ApAp |-> k.ApAp + s.sum * s.sum,
      pAp |-> k.pAp + val_p_diag * s.sum,
      tr |-> s.tr \o <<<<"Ap", row>>, <<"red", row>>>>]

RECURSIVE csr_rows(_, _, _, _)
\* the loop of line 125
csr_rows(m, pv, k, row) ==
  IF row < m.size1 THEN csr_rows(m, pv, csr_row(m, pv, k, row), row + 1)
  ELSE k

pipelined_cg_prod_compressed_matrix(m, pv, vAp, buf) ==
  store_reductions(csr_rows(m, pv, kernel_state(vAp), 0), buf)

\* ---- coordinate_matrix, lines 152-191
\* coo_flush left out: Ap keeps what it held
coo_flush_none(k, i) == k

RECURSIVE coo_flush(_, _)
\* lines 169-170
coo_flush(k, i) ==
  IF i < Size(k.Ap)
  THEN coo_flush([k EXCEPT !.Ap[i] = 0, !.tr = Append(@, <<"zero", i>>)],
                 i + 1)
  ELSE k

RECURSIVE coo_scatter(_, _, _, _)
\* lines 173-174
coo_scatter(m, pv, k, i) ==
  IF i < m.nnz
  THEN LET row == m.coord_buffer[2 * i]
           col == m.coord_buffer[2 * i + 1]
       IN coo_scatter(m, pv,
            [k EXCEPT !.Ap[row] = @ + m.elements[i] * Rd(pv, col),
                      !.tr = @ \o <<<<"col", m.elements[i], col>>,
                                     <<"scatter", row>>>>],
            i + 1)
  ELSE k

RECURSIVE coo_reduce(_, _, _)
\* lines 180-187
coo_reduce(pv, k, i) ==
  IF i < Size(k.Ap)
  THEN coo_reduce(pv,
         [k EXCEPT !.ApAp = @ + k.Ap[i] * k.Ap[i],
                   !.pAp = @ + k.Ap[i] * Rd(pv, i),
                   !.tr = Append(@, <<"red", i>>)],
         i + 1)
  ELSE k

\* the COO overload with the reductions taken before the scatter pass
coo_reduce_before_scatter(m, pv, vAp, buf) ==
  store_reductions(
    coo_scatter(m, pv, coo_reduce(pv, coo_flush(kernel_state(vAp), 0), 0), 0),
    buf)

pipelined_cg_prod_coordinate_matrix(m, pv, vAp, buf) ==
  store_reductions(
    coo_reduce(pv, coo_scatter(m, pv, coo_flush(kernel_state(vAp), 0), 0), 0), buf)

\* ---- ell_matrix, lines 200-239
\* ell_slot without the test of val: the column index is read for every slot
ell_slot_unguarded(m, pv, row, item_id, s) ==
  LET offset == row + item_id * m.internal_size1
      val == m.elements[offset]
  IN [sum |-> s.sum + Rd(pv, m.coords[offset]) * val,
      tr |-> Append(s.tr, <<"col", val, m.coords[offset]>>)]

\* lines 225-229, one slot: s = [sum, tr]
ell_slot(m, pv, row, item_id, s) ==
  LET offset == row + item_id * m.internal_size1
      val == m.elements[offset]
  IN IF val # 0
     THEN [sum |-> s.sum + Rd(pv, m.coords[offset]) * val,
           tr |-> Append(s.tr, <<"col", val, m.coords[offset]>>)]
     ELSE s

RECURSIVE ell_items(_, _, _, _, _)
\* the loop of line 223
ell_items(m, pv, row, item_id, s) ==
  IF item_id < m.internal_maxnnz
  THEN ell_items(m, pv, row, item_id + 1, ell_slot(m, pv, row, item_id, s))
  ELSE s

\* ell_row adding the row's sum to what Ap[row] held
ell_row_accumulate(m, pv, k, row) ==
  LET val_p_diag == Rd(pv, row)
      s == ell_items(m, pv, row, 0, [sum |-> 0, tr |-> k.tr])
  IN [Ap |-> [k.Ap EXCEPT ![row] = @ + s.sum],
      ApAp |-> k.ApAp + s.sum * s.sum,
      pAp |-> k.pAp + val_p_diag * s.sum,
      tr |-> s.tr \o <<<<"Ap", row>>, <<"red", row>>>>]

\* lines 220-234, one row
ell_row(m, pv, k, row) ==
  LET val_p_diag == Rd(pv, row)
      s == ell_items(m, pv, row, 0, [sum |-> 0, tr |-> k.tr])
  IN [Ap |-> [k.Ap EXCEPT ![row] = s.sum],
      ApAp |-> k.ApAp + s.sum * s.sum,
      pAp |-> k.pAp + val_p_diag * s.sum,
      tr |-> s.tr \o <<<<"Ap", row>>, <<"red", row>>>>]

RECURSIVE ell_rows(_, _, _, _)
\* the loop of line 218
ell_rows(m, pv, k, row) ==
  IF row < m.size1 THEN ell_rows(m, pv, ell_row(m, pv, k, row), row + 1)
  ELSE k

pipelined_cg_prod_ell_matrix(m, pv, vAp, buf) ==
  store_reductions(ell_rows(m, pv, kernel_state(vAp), 0), buf)

\* ---- sliced_ell_matrix, lines 248-310
\* lines 287-289, one slot of the block: s = [rv, tr], rv = result_values
sell_slot(m, pv, stride_start, row_in_block, s) ==
  LET val == Rd(m.elements, stride_start + row_in_block)
      col == Rd(m.column_indices, stride_start + row_in_block)
  IN IF val # 0
     THEN [rv |-> [s.rv EXCEPT ![row_in_block] = @ + Rd(pv, col) * val],
           tr |-> Append(s.tr, <<"col", val, col>>)]
     ELSE s

RECURSIVE sell_stride(_, _, _, _, _)
\* the loop of line 285
sell_stride(m, pv, stride_start, row_in_block, s) ==
  IF row_in_block < m.rows_per_block
  THEN sell_stride(m, pv, stride_start, row_in_block + 1,
                   sell_slot(m, pv, stride_start, row_in_block, s))
  ELSE s

RECURSIVE sell_columns(_, _, _, _, _, _)
\* the loop of lines 278-291; columns is current_columns_per_block
sell_columns(m, pv, block_idx, columns, column_entry_index, s) ==
  IF column_entry_index < columns
  THEN sell_columns(m, pv, block_idx, columns, column_entry_index + 1,
         sell_stride(m, pv,
           Rd(m.block_start, block_idx)
             + column_entry_index * m.rows_per_block,
           0, s))
  ELSE s

\* sell_write with only the store to Ap under the range check
sell_write_sums_unchecked(pv, rv, first_row_in_matrix, row_in_block, k) ==
  LET row == first_row_in_matrix + row_in_block
      row_result == rv[row_in_block]
  IN [Ap |-> IF row < Size(k.Ap) THEN [k.Ap EXCEPT ![row] = row_result]
             ELSE k.Ap,
      ApAp |-> k.ApAp + row_result * row_result,
      pAp |-> k.pAp + Rd(pv, row) * row_result,
      tr |-> k.tr \o (IF row < Size(k.Ap) THEN <<<<"Ap", row>>>> ELSE <<>>)
                  \o <<<<"red", row>>>>]

\* lines 296-304, one row of the block written out
sell_write(pv, rv, first_row_in_matrix, row_in_block, k) ==
  LET row == first_row_in_matrix + row_in_block
      row_result == rv[row_in_block]
  IN IF row < Size(k.Ap)
     THEN [Ap |-> [k.Ap EXCEPT ![row] = row_result],
           ApAp |-> k.ApAp + row_result * row_result,
           pAp |-> k.pAp + Rd(pv, row) * row_result,
           tr |-> k.tr \o <<<<"Ap", row>>, <<"red", row>>>>]
     ELSE k

RECURSIVE sell_writes(_, _, _, _, _, _)
\* the loop of line 294
sell_writes(m, pv, rv, first_row_in_matrix, row_in_block, k) ==
  IF row_in_block < m.rows_per_block
  THEN sell_writes(m, pv, rv, first_row_in_matrix, row_in_block + 1,
                   sell_write(pv, rv, first_row_in_matrix, row_in_block, k))
  ELSE k

\* lines 273-305, one block
sell_block(m, pv, k, block_idx) ==
  LET current_columns_per_block == Rd(m.columns_per_block, block_idx)
      s == sell_columns(m, pv, block_idx, current_columns_per_block, 0,
             [rv |-> [i \in 0..(m.rows_per_block - 1) |-> 0],
              tr |-> Append(k.tr, <<"blk", block_idx>>)])
  IN sell_writes(m, pv, s.rv, block_idx * m.rows_per_block, 0,
                 [k EXCEPT !.tr = s.tr])

\* line 266
sell_num_blocks(m) == m.size1 \div m.rows_per_block + 1

RECURSIVE sell_blocks(_, _, _, _)
\* the loop of line 271
sell_blocks(m, pv, k, block_idx) ==
  IF block_idx < sell_num_blocks(m)
  THEN sell_blocks(m, pv, sell_block(m, pv, k, block_idx), block_idx + 1)
  ELSE k

pipelined_cg_prod_sliced_ell_matrix(m, pv, vAp, buf) ==
  store_reductions(sell_blocks(m, pv, kernel_state(vAp), 0), buf)

\* ---- hyb_matrix, lines 321-376
\* lines 353-357, one slot of the ELL part: s = [sum, tr]
hyb_slot(m, pv, row, item_id, s) ==
  LET offset == row + item_id * m.internal_size1
      val == m.elements[offset]
  IN IF val # 0
     THEN [sum |-> s.sum + Rd(pv, m.coords[offset]) * val,
           tr |-> Append(s.tr, <<"col", val, m.coords[offset]>>)]
     ELSE s

RECURSIVE hyb_items(_, _, _, _, _)
\* the loop of line 351
hyb_items(m, pv, row, item_id, s) ==
  IF item_id < m.internal_ellnnz
  THEN hyb_items(m, pv, row, item_id + 1, hyb_slot(m, pv, row, item_id, s))
  ELSE s

RECURSIVE hyb_csr(_, _, _, _, _)
\* lines 366-367, the overflow part
hyb_csr(m, pv, item_id, col_end, s) ==
  IF item_id < col_end
  THEN hyb_csr(m, pv, item_id + 1, col_end,
         [sum |-> s.sum + Rd(pv, m.csr_col_buffer[item_id])
                            * m.csr_elements[item_id],
          tr |-> Append(s.tr, <<"ccol", m.csr_elements[item_id],
                                m.csr_col_buffer[item_id]>>)])
  ELSE s

\* hyb_row without the overflow part
hyb_row_ell_only(m, pv, k, row) ==
  LET val_p_diag == Rd(pv, row)
      s == hyb_items(m, pv, row, 0, [sum |-> 0, tr |-> k.tr])
  IN [Ap |-> [k.Ap EXCEPT ![row] = s.sum],
      ApAp |-> k.ApAp + s.sum * s.sum,
      pAp |-> k.pAp + val_p_diag * s.sum,
      tr |-> s.tr \o <<<<"Ap", row>>, <<"red", row>>>>]

\* lines 345-371, one row
hyb_row(m, pv, k, row) ==
  LET val_p_diag == Rd(pv, row)
      s == hyb_csr(m, pv, m.csr_row_buffer[row], m.csr_row_buffer[row + 1],
                   hyb_items(m, pv, row, 0, [sum |-> 0, tr |-> k.tr]))
  IN [Ap |-> [k.Ap EXCEPT ![row] = s.sum],
      ApAp |-> k.ApAp + s.sum * s.sum,
      pAp |-> k.pAp + val_p_diag * s.sum,
      tr |-> s.tr \o <<<<"Ap", row>>, <<"red", row>>>>]

RECURSIVE hyb_rows(_, _, _, _)
\* the loop of line 343
hyb_rows(m, pv, k, row) ==
  IF row < m.size1 THEN hyb_rows(m, pv, hyb_row(m, pv, k, row), row + 1)
  ELSE k

pipelined_cg_prod_hyb_matrix(m, pv, vAp, buf) ==
  store_reductions(hyb_rows(m, pv, kernel_state(vAp), 0), buf)

\* ------------------------------------------------------------ the calls
Kernels == {"csr", "coo", "ell", "sell", "hyb"}

\* a call of one overload of pipelined_cg_prod on the solver's p, Ap and
\* inner_prod_buffer; res is what the overload leaves
Prod(name, res) ==
  /\ Ap' = res.Ap
  /\ buffer' = res.buffer
  /\ trace' = res.tr
  /\ call' = [kernel |-> name, alpha |-> 0, beta |-> 0]
  /\ pre' = [result |-> result, p |-> p, r |-> r, Ap |-> Ap,
             buffer |-> buffer]
  /\ hist' = [hist EXCEPT !.prod = TRUE, !.p = p]
  /\ UNCHANGED <<mats, p, result, r, garbage>>

ProdCSR == Prod("csr", pipelined_cg_prod_compressed_matrix(csr, p, Ap, buffer))
ProdCOO == Prod("coo", pipelined_cg_prod_coordinate_matrix(coo, p, Ap, buffer))
ProdELL == Prod("ell", pipelined_cg_prod_ell_matrix(ell, p, Ap, buffer))
ProdSELL ==
  Prod("sell", pipelined_cg_prod_sliced_ell_matrix(sell, p, Ap, buffer))
ProdHYB == Prod("hyb", pipelined_cg_prod_hyb_matrix(hyb, p, Ap, buffer))

\* a call of pipelined_cg_vector_update with step sizes alpha and beta
VectorUpdate ==
  /\ hist.updates < MaxUpdates
  /\ \E alpha \in Alphas, beta \in Betas :
       LET res == pipelined_cg_vector_update(result, alpha, p, r, Ap, beta,
                                             buffer)
       IN /\ result' = res.result
          /\ p' = res.p
          /\ r' = res.r
          /\ buffer' = res.buffer
          /\ trace' = res.tr
          /\ call' = [kernel |-> "vu", alpha |-> alpha, beta |-> beta]
  /\ pre' = [result |-> result, p |-> p, r |-> r, Ap |-> Ap,
             buffer |-> buffer]
  /\ hist' = [hist EXCEPT !.updates = @ + 1]
  /\ UNCHANGED <<mats, Ap, garbage>>

\* ---------------------------------------------------------- the inputs
Rows(M) == 0..(M - 1)
ZeroMat(M) == [row \in Rows(M) |-> [c \in Rows(M) |-> 0]]
\* 2 on the diagonal, 5 below it
BandMat(M) ==
  [row \in Rows(M) |-> [c \in Rows(M) |->
     IF c = row THEN 2 ELSE IF c + 1 = row THEN 5 ELSE 0]]
\* every M x M matrix over AVals with at most MaxNnz entries
SparseMats(M) ==
  {a \in [Rows(M) -> [Rows(M) -> AVals]] : Nnz(a) <= MaxNnz}
CGMats(M) == {ZeroMat(M), BandMat(M)}
Const(M, c) == [i \in Rows(M) |-> c]
Ramp(M) == [i \in Rows(M) |-> i + 1]
ProdVecs(M) == {Const(M, 3), Ramp(M)}
CGVecs(M) == {Const(M, 1), Ramp(M)}

\* The state before the first call: a matrix a in its five encodings, the
\* vectors, Ap holding what its memory held, and the buffer filled with a
\* different sentinel in every element.
InitWith(Mats, Vecs, Rpbs) ==
  \E M \in 1..MaxM : \E a \in Mats[M] : \E pv \in Vecs[M] :
  \E rpb \in Rpbs : \E B \in {1, MaxB} : \E g \in Garbage :
    /\ A = a
    /\ csr = ToCSR(a)
    /\ coo = ToCOO(a)
    /\ ell = ToELL(a, rpb, Max(1, MaxRowNnz(a, 0, M)), g)
    /\ sell = ToSELL(a, rpb, g, g)
    /\ hyb = ToHYB(a, rpb, g)
    /\ p = pv
    /\ Ap = Const(M, g)
    /\ result = Ramp(M)
    /\ r = Const(M, 2)
    /\ buffer = [i \in 0..(3 * B - 1) |-> -(i + 1)]
    /\ garbage = g
    /\ call = [kernel |-> "none", alpha |-> 0, beta |-> 0]
    /\ pre = [result |-> Ramp(M), p |-> pv, r |-> Const(M, 2),
              Ap |-> Const(M, g),
              buffer |-> [i \in 0..(3 * B - 1) |-> -(i + 1)]]
    /\ hist = [updates |-> 0, prod |-> FALSE, p |-> pv]
    /\ trace = <<>>

\* The solver: the two kinds of kernel alternate on one buffer.
Init ==
  InitWith([M \in 1..MaxM |-> CGMats(M)], [M \in 1..MaxM |-> CGVecs(M)],
           {MaxRpb})
Next ==
  \/ VectorUpdate
  \/ ProdCSR
  \/ ProdCOO
  \/ ProdELL
  \/ ProdSELL
  \/ ProdHYB
Spec == Init /\ [][Next]_vars

\* The SpMV kernels alone, on every small matrix.
InitProd ==
  InitWith([M \in 1..MaxM |-> SparseMats(M)],
           [M \in 1..MaxM |-> ProdVecs(M)], 1..MaxRpb)
NextProd ==
  \/ ProdCSR
  \/ ProdCOO
  \/ ProdELL
  \/ ProdSELL
  \/ ProdHYB
SpecProd == InitProd /\ [][NextProd]_vars

\* ====================================================== the properties
M == Size(p)
B == Size(buffer) \div 3
AfterProd == call.kernel \in Kernels
\* the overload named `name` on the state's matrix in that format
Run(name, pv, vAp, buf) ==
  CASE name = "csr" -> pipelined_cg_prod_compressed_matrix(csr, pv, vAp, buf)
    [] name = "coo" -> pipelined_cg_prod_coordinate_matrix(coo, pv, vAp, buf)
    [] name = "ell" -> pipelined_cg_prod_ell_matrix(ell, pv, vAp, buf)
    [] name = "sell" -> pipelined_cg_prod_sliced_ell_matrix(sell, pv, vAp, buf)
    [] name = "hyb" -> pipelined_cg_prod_hyb_matrix(hyb, pv, vAp, buf)
Pos(tag) == {i \in 1..Len(trace) : trace[i][1] = tag}

\* C1: after a call of any of the five overloads on its encoding of the
\* logical matrix A, Ap[row] is the sum over the row's entries of
\* value * p[col], buffer[B] is the sum of Ap[row]^2 and buffer[2B] the sum
\* of p[row] * Ap[row]; so the five formats agree.  A = [5], p = [3] gives
\* Ap = [15], 225 and 45.
C1_ProdIsMatVec ==
  AfterProd =>
    /\ Ap = MatVec(A, p)
    /\ buffer[B] = SumSq(MatVec(A, p))
    /\ buffer[2 * B] = Dot(p, MatVec(A, p))
    /\ (M = 1 /\ A[0][0] = 5 /\ p[0] = 3) =>
         (Ap[0] = 15 /\ buffer[B] = 225 /\ buffer[2 * B] = 45)
\* a row with an ELL entry and an overflow entry, multiplied by the HYB kernel
C1_Witness ==
  /\ call.kernel = "hyb"
  /\ M = 2
  /\ A[1][0] = 5 /\ A[1][1] = 2 /\ A[0][0] = 0 /\ A[0][1] = 0
  /\ p[0] = 1 /\ p[1] = 2
  /\ Ap[1] = 9 /\ buffer[B] = 81 /\ buffer[2 * B] = 18

\* C2: a vector-update call leaves result = result0 + alpha*p0,
\* r = r0 - alpha*Ap, p = (new r) + beta*p0 and buffer[0] = sum of (new r)^2;
\* result=[1,2], p=[1,1], r=[2,2], Ap=[0,0], alpha=1, beta=0 gives
\* result=[2,3], r=[2,2], p=[2,2] and 8.
C2_VectorUpdate ==
  call.kernel = "vu" =>
    /\ \A i \in DOMAIN result :
         /\ result[i] = pre.result[i] + call.alpha * pre.p[i]
         /\ r[i] = pre.r[i] - call.alpha * pre.Ap[i]
         /\ p[i] = r[i] + call.beta * pre.p[i]
    /\ buffer[0] = SumSq(r)
    /\ Ap = pre.Ap
    /\ (/\ M = 2 /\ pre.result = Ramp(2) /\ pre.p = Const(2, 1)
        /\ pre.r = Const(2, 2) /\ pre.Ap = Const(2, 0)
        /\ call.alpha = 1 /\ call.beta = 0) =>
         (/\ result = SeqToArr(<<2, 3>>) /\ r = Const(2, 2)
          /\ p = Const(2, 2) /\ buffer[0] = 8)
\* a call after an SpMV call, with Ap, alpha and beta all different from 0
C2_Witness ==
  /\ call.kernel = "vu"
  /\ hist.prod
  /\ M = 2
  /\ call.alpha = 2 /\ call.beta = 1
  /\ pre.Ap[1] # 0
  /\ r[1] # pre.r[1] /\ p[1] # r[1]

\* C3: a vector-update call changes no buffer element but offset 0, an SpMV
\* call none but offsets B and 2B; so offset 0 holds what the last
\* vector-update call stored (the sentinel before the first) and offsets B,
\* 2B what the last SpMV call stored.
C3_BufferSlots ==
  /\ call.kernel = "vu" =>
       \A i \in DOMAIN buffer \ {0} : buffer[i] = pre.buffer[i]
  /\ AfterProd =>
       \A i \in DOMAIN buffer \ {B, 2 * B} : buffer[i] = pre.buffer[i]
  /\ \A i \in DOMAIN buffer \ {0, B, 2 * B} : buffer[i] = -(i + 1)
  /\ buffer[0] = IF hist.updates > 0 THEN SumSq(r) ELSE -1
  /\ buffer[B] = IF hist.prod THEN SumSq(Ap) ELSE -(B + 1)
  /\ buffer[2 * B] = IF hist.prod THEN Dot(hist.p, Ap) ELSE -(2 * B + 1)
\* both kinds of call have run on a buffer with elements between the slots
C3_Witness ==
  /\ call.kernel = "vu"
  /\ hist.prod
  /\ hist.updates = 2
  /\ B = 2
  /\ buffer[1] = -2 /\ buffer[3] = -4
  /\ buffer[0] > 0 /\ buffer[2] > 0 /\ buffer[4] > 0
  /\ hist.p # p

\* C7 as claimed: offset B holds inner_prod(p,Ap) and offset 2B holds
\* inner_prod(Ap,Ap).
C7_AsClaimed ==
  /\ call.kernel = "vu" => buffer[0] = SumSq(r)
  /\ AfterProd => (buffer[B] = Dot(p, Ap) /\ buffer[2 * B] = SumSq(Ap))
\* C7, amended: after a vector-update call offset 0 holds the sum of the new
\* r[i]^2; after a call of any overload of pipelined_cg_prod offset B holds
\* inner_prod(Ap,Ap) and offset 2B holds inner_prod(p,Ap).
C7_Layout ==
  /\ call.kernel = "vu" => buffer[0] = SumSq(r)
  /\ AfterProd => (buffer[B] = SumSq(Ap) /\ buffer[2 * B] = Dot(p, Ap))
\* an SpMV call whose two sums differ
C7_Witness ==
  /\ AfterProd
  /\ hist.updates > 0
  /\ buffer[B] = SumSq(Ap) /\ buffer[2 * B] = Dot(p, Ap)
  /\ SumSq(Ap) # Dot(p, Ap)

\* C4: when M is no multiple of rows_per_block, the sliced-ELL overload
\* leaves the Ap and the buffer the CSR overload leaves, and it neither
\* stores to Ap nor adds to the sums for a row >= M, whatever the overhang
\* slots hold.
C4_SlicedEllOverhang ==
  (call.kernel = "sell" /\ M % sell.rows_per_block # 0) =>
    /\ Ap = Run("csr", p, pre.Ap, pre.buffer).Ap
    /\ buffer = Run("csr", p, pre.Ap, pre.buffer).buffer
    /\ \A i \in Pos("Ap") \cup Pos("red") : trace[i][2] < M
\* an overhang slot that holds a value other than 0 was accumulated
C4_Witness ==
  /\ call.kernel = "sell"
  /\ M % sell.rows_per_block # 0
  /\ garbage # 0
  /\ \E off \in DOMAIN sell.elements :
       /\ sell.elements[off] = garbage
       /\ \E i \in Pos("col") : trace[i] = <<"col", garbage, 0>>
  /\ Ap = MatVec(A, p)
  /\ Ap[0] # 0

\* C5: what an overload leaves in Ap and at offsets B, 2B does not depend on
\* what Ap and the buffer held: every row of Ap is stored to (a COO row
\* without entry ends at 0), other prior contents give the same result, and
\* a second call in a row changes nothing.
C5_PriorContentsIgnored ==
  AfterProd =>
    LET other == Run(call.kernel, p, [i \in DOMAIN Ap |-> pre.Ap[i] + 1],
                     [i \in DOMAIN buffer |-> 0])
        again == Run(call.kernel, p, Ap, buffer)
    IN /\ \A row \in DOMAIN Ap :
            \E i \in Pos("Ap") \cup Pos("zero") : trace[i][2] = row
       /\ call.kernel = "coo" =>
            \A row \in DOMAIN Ap : RowNnz(A, row) = 0 => Ap[row] = 0
       /\ Ap = other.Ap
       /\ buffer[B] = other.buffer[B]
       /\ buffer[2 * B] = other.buffer[2 * B]
       /\ again.Ap = Ap
       /\ again.buffer = buffer
\* a COO call on an Ap that held something else, with a row without entry
C5_Witness ==
  /\ call.kernel = "coo"
  /\ M = 2
  /\ pre.Ap = Const(2, garbage) /\ garbage # 0
  /\ RowNnz(A, 0) = 0 /\ RowNnz(A, 1) = 2
  /\ Ap[0] = 0 /\ Ap[1] # 0

\* C6: with no stored entry (no CSR, COO or HYB-overflow entry, every ELL,
\* sliced-ELL and HYB-ELL slot of a row 0) every overload leaves Ap = 0 in
\* all rows and 0 at offsets B and 2B, whatever p, Ap and the buffer held.
AllStructuralZero ==
  /\ csr.row_buffer[M] = 0
  /\ coo.nnz = 0
  /\ hyb.csr_row_buffer[M] = 0
  /\ \A off \in DOMAIN ell.elements : ell.elements[off] = 0
  /\ \A off \in DOMAIN hyb.elements : hyb.elements[off] = 0
  /\ Nnz(A) = 0
C6_ZeroMatrix ==
  (AfterProd /\ AllStructuralZero) =>
    /\ Ap = Const(M, 0)
    /\ buffer[B] = 0
    /\ buffer[2 * B] = 0
\* an ELL call on zero slots, Ap and the buffer holding other values before
C6_Witness ==
  /\ call.kernel = "ell"
  /\ AllStructuralZero
  /\ M = 2
  /\ Size(ell.elements) >= 2
  /\ pre.Ap = Const(2, garbage) /\ garbage # 0
  /\ pre.buffer[B] # 0
  /\ Ap = Const(2, 0) /\ buffer[B] = 0 /\ buffer[2 * B] = 0

\* C8: in every overload offsets B and 2B are stored to once each, after
\* every store to Ap and every accumulation; the COO overload zeroes all of
\* Ap, then makes all nnz scatter updates, then adds the rows to the sums.
C8_Order ==
  AfterProd =>
    /\ Len(trace) >= 2
    /\ trace[Len(trace) - 1] = <<"buf", B>>
    /\ trace[Len(trace)] = <<"buf", 2 * B>>
    /\ Pos("buf") = {Len(trace) - 1, Len(trace)}
    /\ call.kernel = "coo" =>
         /\ Cardinality(Pos("zero")) = M
         /\ Cardinality(Pos("scatter")) = coo.nnz
         /\ Cardinality(Pos("red")) = M
         /\ \A i \in Pos("zero") : \A j \in Pos("col") \cup Pos("scatter") :
              i < j
         /\ \A j \in Pos("col") \cup Pos("scatter") : \A k \in Pos("red") :
              j < k
\* a COO call with two scatter updates
C8_Witness ==
  /\ call.kernel = "coo"
  /\ M = 2
  /\ coo.nnz = 2
  /\ Len(trace) = 10
  /\ trace[1][1] = "zero" /\ trace[4][1] = "scatter" /\ trace[7][1] = "red"

\* the matrices with the column index of every slot of value 0 set to 0
ZeroPadded(name) ==
  CASE name = "ell" ->
         [ell EXCEPT !.coords = [off \in DOMAIN ell.coords |->
            IF ell.elements[off] = 0 THEN 0 ELSE ell.coords[off]]]
    [] name = "hyb" ->
         [hyb EXCEPT !.coords = [off \in DOMAIN hyb.coords |->
            IF hyb.elements[off] = 0 THEN 0 ELSE hyb.coords[off]]]
    [] name = "sell" ->
         [sell EXCEPT !.column_indices =
            [off \in DOMAIN sell.column_indices |->
               IF sell.elements[off] = 0 THEN 0
               ELSE sell.column_indices[off]]]
RunZeroPadded(name, pv, vAp, buf) ==
  CASE name = "ell" ->
         pipelined_cg_prod_ell_matrix(ZeroPadded("ell"), pv, vAp, buf)
    [] name = "hyb" ->
         pipelined_cg_prod_hyb_matrix(ZeroPadded("hyb"), pv, vAp, buf)
    [] name = "sell" ->
         pipelined_cg_prod_sliced_ell_matrix(ZeroPadded("sell"), pv, vAp, buf)

\* C9: the ELL, HYB and sliced-ELL overloads read the column index of no
\* slot whose value is 0, so every index of p they use comes from a slot
\* with a value other than 0, and Ap and the sums are what they are with
\* the padding's column indices set to 0.
C9_PaddingSkipped ==
  call.kernel \in {"ell", "hyb", "sell"} =>
    /\ \A i \in Pos("col") : trace[i][2] # 0
    /\ Ap = RunZeroPadded(call.kernel, p, pre.Ap, pre.buffer).Ap
    /\ buffer = RunZeroPadded(call.kernel, p, pre.Ap, pre.buffer).buffer
\* an ELL call on a matrix with an entry in row 1 and, in row 0, a padding
\* slot whose column index lies outside p
C9_Witness ==
  /\ call.kernel = "ell"
  /\ M = 2
  /\ garbage # 0
  /\ ell.elements[0] = 0
  /\ ell.coords[0] \notin DOMAIN p
  /\ ell.elements[1] # 0
  /\ Ap[0] = 0
  /\ Ap[1] # 0

\* C10: the sliced-ELL overload reads columns_per_block and block_start only
\* at block indices below ceil(M / rows_per_block).
C10_BlocksTraversed ==
  call.kernel = "sell" =>
    \A i \in Pos("blk") : trace[i][2] < CeilDiv(M, sell.rows_per_block)
=============================================================================
